---- MODULE Spec2Model ----
(***************************************************************************)
(* VentureVision backend (backend/main.py): the POST /analyze pipeline.    *)
(*                                                                         *)
(* One Flask handler, analyze(), runs                                      *)
(*   ValidateInput -> Analyze -> Search -> Summarize(xN) -> Advise ->      *)
(*   Respond                                                               *)
(* against two upstream services: an LLM chat-completion API and the       *)
(* Product Hunt GraphQL API.  Python strings are sequences of one-         *)
(* character strings, so that str.strip, str.split and str.join are        *)
(* computed character by character.  A complete JSON document in an LLM    *)
(* reply is one symbol of JsonDocs, decoded by DocValue.                   *)
(***************************************************************************)
EXTENDS Integers, Sequences, FiniteSets, TLC

VARIABLES
    stubbed,    \* TRUE: the upstreams are deterministic stubs (a test harness)
    memo,       \* stubbed: the stubs' answers revealed so far, per argument
    seen,       \* stubbed: first response observed for each request body
    pc,         \* position of the handler: Idle, Analyze, ..., Respond
    data,       \* request.json of the request in flight (or last served)
    user_idea,  \* local of analyze()
    analysis,   \* local of analyze()
    keywords,   \* local of analyze()
    products,   \* local of analyze() / search_product_hunt()
    idx,        \* number of products the for-loop of analyze() has visited
    comp_adv,   \* local of analyze()
    calls,      \* outbound calls of the request in flight, in order
    ended,      \* the pipeline state that produced the last response
    response    \* the last HTTP response sent

vars == << stubbed, memo, seen, pc, data, user_idea, analysis, keywords,
           products, idx, comp_adv, calls, ended, response >>

-----------------------------------------------------------------------------
(* Python str operations                                                   *)

\* Characters str.strip() removes (a sample of Python's whitespace).
Whitespace == {" ", "\n"}

RECURSIVE lstrip(_)
lstrip(s) ==
    IF s # << >> /\ Head(s) \in Whitespace THEN lstrip(Tail(s)) ELSE s

RECURSIVE rstrip(_)
rstrip(s) ==
    IF s # << >> /\ s[Len(s)] \in Whitespace
    THEN rstrip(SubSeq(s, 1, Len(s) - 1))
    ELSE s

\* str.strip()
strip(s) == rstrip(lstrip(s))

\* str.split(sep) for a one-character separator: scan for the next sep.
RECURSIVE split(_, _)
split(s, sep) ==
    IF \A i \in 1..Len(s) : s[i] # sep
    THEN << s >>
    ELSE LET i == CHOOSE j \in 1..Len(s) :
                      s[j] = sep /\ \A k \in 1..(j - 1) : s[k] # sep
         IN  << SubSeq(s, 1, i - 1) >> \o split(SubSeq(s, i + 1, Len(s)), sep)

\* sep.join(items)
RECURSIVE join(_, _)
join(sep, items) ==
    IF items = << >> THEN << >>
    ELSE IF Len(items) = 1 THEN items[1]
    ELSE items[1] \o sep \o join(sep, Tail(items))

\* dict.get(key, default)
Get(d, key, default) == IF key \in DOMAIN d THEN d[key] ELSE default

-----------------------------------------------------------------------------
(* Values                                                                  *)

\* JSON values a "keywords" entry can hold.
KwList(items) == [type |-> "list", items |-> items, str |-> << >>]
KwStr(s)      == [type |-> "str",  items |-> << >>, str |-> s]
KwNum         == [type |-> "num",  items |-> << >>, str |-> << >>]

\* What json.loads / the fallback hands back: a dict (its key set, and the
\* values of the two entries the pipeline reads) or a non-dict JSON value.
Dict(keys, kw, raw) ==
    [type |-> "dict", keys |-> keys, keywords |-> kw, raw |-> raw]
JsonArray == [type |-> "array", keys |-> {}, keywords |-> KwNum, raw |-> << >>]
Unbound   == [type |-> "unbound", keys |-> {}, keywords |-> KwNum, raw |-> << >>]

StructuredKeys == {"keywords", "domain", "target_audience", "usps"}

ai      == << "a", "i" >>
finance == << "f", "i", "n", "a", "n", "c", "e" >>
saas    == << "s", "a", "a", "s" >>

\* Complete JSON documents an LLM may answer with.
JsonDocs == { "J_LIST", "J_STR", "J_STR_TIGHT", "J_STR_GAPS", "J_NOKW",
              "J_EMPTY", "J_BOTH", "J_NUMKW", "J_ARRAY" }

\* The Python value each document decodes to.
DocValue(d) ==
    CASE d = "J_LIST" ->
            Dict(StructuredKeys, KwList(<< ai, finance >>), << >>)
      [] d = "J_STR" ->      \* "keywords": "ai, finance, saas"
            Dict(StructuredKeys,
                 KwStr(ai \o << ",", " " >> \o finance \o << ",", " " >> \o saas),
                 << >>)
      [] d = "J_STR_TIGHT" -> \* "keywords": " ai ,finance\n"
            Dict(StructuredKeys,
                 KwStr(<< " " >> \o ai \o << " ", "," >> \o finance \o << "\n" >>),
                 << >>)
      [] d = "J_STR_GAPS" ->  \* "keywords": "ai,, a i,"
            Dict(StructuredKeys,
                 KwStr(ai \o << ",", ",", " " >> \o << "a", " ", "i" >> \o << "," >>),
                 << >>)
      [] d = "J_NOKW" ->     \* {"domain": ..., "usps": ...}: no keywords entry
            Dict({"domain", "usps"}, KwNum, << >>)
      [] d = "J_EMPTY" ->    \* {}
            Dict({}, KwNum, << >>)
      [] d = "J_BOTH" ->     \* structured entries and a "raw" entry
            Dict(StructuredKeys \cup {"raw"}, KwList(<< ai >>), << "r" >>)
      [] d = "J_NUMKW" ->    \* "keywords": 5
            Dict(StructuredKeys, KwNum, << >>)
      [] d = "J_ARRAY" ->    \* ["ai", "finance"]
            JsonArray

\* json.loads(text): whitespace around the document is allowed (JSON's
\* whitespace, of which Whitespace is a sample); anything that is not exactly
\* one document raises.
json_loads(text) ==
    LET t == strip(text)
    IN  IF Len(t) = 1 /\ t[1] \in JsonDocs
        THEN [ok |-> TRUE, value |-> DocValue(t[1])]
        ELSE [ok |-> FALSE, value |-> Unbound]

-----------------------------------------------------------------------------
(* Requests                                                                *)

NonEmptyIdeas == { << "x" >>, << " " >> }

\* request.json: a JSON object with or without an "idea" entry.
Requests ==
    { [has_idea |-> FALSE, idea |-> << >>] } \cup
    { [has_idea |-> TRUE, idea |-> t] : t \in NonEmptyIdeas \cup { << >> } }

\* data.get("idea", "")
GetIdea(d) == IF d.has_idea THEN d.idea ELSE << >>

\* Variant: the handler does not test the idea.
NeverFalsy(v) == FALSE

\* `not user_idea`
Falsy(v) == v = << >>

-----------------------------------------------------------------------------
(* The LLM chat-completion API                                             *)

LLMRaise   == [raises |-> TRUE,  content |-> << >>]
LLMText(c) == [raises |-> FALSE, content |-> c]

sorry == << "n", "o" >>

\* Replies to the analyze_idea prompt: an exception, or any text.
AnalyzerReplies ==
    { LLMRaise } \cup
    { LLMText(c) : c \in { << >>,
                           << " " >> \o sorry \o << "\n" >>,
                           << "#", "J_LIST", "#" >>,
                           << "\n", "J_LIST", " " >> } } \cup
    { LLMText(<< d >>) : d \in JsonDocs }

\* Replies to the summarize_product prompt.
SummarizerReplies ==
    { LLMRaise, LLMText(<< " ", "s", "\n" >>), LLMText(<< " " >>) }

\* Replies to the suggest_competitive_advantage prompt.
AdvisorReplies == { LLMRaise, LLMText(<< "\n", "-", " ", "a", " " >>) }

-----------------------------------------------------------------------------
(* The Product Hunt GraphQL API                                            *)

\* posts(query: $term, order: VOTES, first: 5)
SearchQueryFirst == 5

Topics(names) == [edges |-> [k \in 1..Len(names) |-> [node |-> [name |-> names[k]]]]]

Node1 == [id |-> "1", name |-> "P1", tagline |-> "t1", description |-> "d1",
          url |-> "u1", createdAt |-> "c1", votesCount |-> 7,
          commentsCount |-> 1, topics |-> Topics(<< << "A", "I" >>, << "B" >> >>)]
Node2 == [id |-> "2", name |-> "P2", tagline |-> "t2", description |-> "d2",
          url |-> "u2", createdAt |-> "c2", votesCount |-> 3,
          commentsCount |-> 0, topics |-> Topics(<< >>)]
\* A result without its tagline.
BadNode == [id |-> "3", name |-> "P3", description |-> "d3", url |-> "u3",
            createdAt |-> "c3", votesCount |-> 0, commentsCount |-> 0,
            topics |-> Topics(<< >>)]

Edge(n) == [node |-> n]

Edges(ns) == [k \in 1..Len(ns) |-> Edge(ns[k])]

RECURSIVE SeqsUpTo(_, _)
SeqsUpTo(S, n) ==
    IF n = 0 THEN { << >> }
    ELSE LET shorter == SeqsUpTo(S, n - 1)
         IN  shorter \cup { Append(q, x) : q \in shorter, x \in S }

\* Bodies of a 200 answer that carries the posts connection.  The service
\* returns at most `first` posts.
PostsBody(edges) == [data |-> [posts |-> [edges |-> edges]]]

HttpRaise        == [raises |-> TRUE,  status |-> 0, body |-> << >>]
Http(status, b)  == [raises |-> FALSE, status |-> status, body |-> b]

WellFormedAnswers ==
    { Http(200, PostsBody(Edges(ns))) :
        ns \in SeqsUpTo({Node1, Node2}, SearchQueryFirst) }

\* 200 answers of another shape: a key of the path data.posts.edges is
\* absent, an edge has no node, a node lacks a field.
OddAnswers ==
    { Http(200, [errors |-> "e"]),
      Http(200, [data |-> [viewer |-> "v"]]),
      Http(200, [data |-> [posts |-> [totalCount |-> 0]]]),
      Http(200, PostsBody(<< [cursor |-> "c"] >>)),
      Http(200, PostsBody(<< Edge(Node1), Edge(BadNode) >>)) }

ErrorAnswers == { Http(500, [errors |-> "e"]), Http(201, PostsBody(<< Edge(Node1) >>)) }

SearchReplies == { HttpRaise } \cup WellFormedAnswers \cup OddAnswers \cup ErrorAnswers

-----------------------------------------------------------------------------
(* The answers a test harness configures its stubs with                    *)

\* Longest list of posts a stubbed search answers with.
MaxStubPosts == 2

StubAnalyzerReplies ==
    { LLMRaise, LLMText(<< " " >> \o sorry \o << "\n" >>),
      LLMText(<< "J_LIST" >>) }

StubSearchReplies ==
    { Http(500, [errors |-> "e"]) } \cup
    { Http(200, PostsBody(Edges(ns))) :
        ns \in SeqsUpTo({Node1, Node2}, MaxStubPosts) }

StubSummarizerReplies == SummarizerReplies

StubAdvisorReplies == AdvisorReplies

-----------------------------------------------------------------------------
(* Upstream behaviour: live services answer anything, at every call; a     *)
(* deterministic stub answers a given argument the same way every time.    *)

Answers(table, key, live, canned) ==
    IF ~stubbed THEN live
    ELSE IF key \in DOMAIN table THEN { table[key] }
    ELSE canned

Learn(table, key, r) ==
    IF stubbed /\ key \notin DOMAIN table THEN table @@ (key :> r) ELSE table

Call(svc, arg, reply) == [svc |-> svc, arg |-> arg, reply |-> reply]

-----------------------------------------------------------------------------
(* backend/main.py                                                         *)

\* Variant: the decoding error is not caught.
analyze_idea_uncaught(content) == json_loads(strip(content)).value

\* Variant: a raw entry is added to every decoded object.
analyze_idea_tagged(content) ==
    LET text   == strip(content)
        parsed == json_loads(text)
    IN  IF parsed.ok /\ parsed.value.type = "dict"
        THEN [parsed.value EXCEPT !.keys = @ \cup {"raw"}]
        ELSE IF parsed.ok THEN parsed.value ELSE Dict({"raw"}, KwNum, text)

\* analyze_idea, after the completion returned `content`
analyze_idea(content) ==
    LET text   == strip(content)
        parsed == json_loads(text)
    IN  IF parsed.ok THEN parsed.value ELSE Dict({"raw"}, KwNum, text)

\* Variant: the pieces are not stripped.
NormalizeKeywordsUntrimmed(a) ==
    LET kw == IF "keywords" \in a.keys THEN a.keywords ELSE KwList(<< >>)
    IN  IF kw.type = "str" THEN KwList(split(kw.str, ",")) ELSE kw

\* analyze(): keywords = analysis.get("keywords", []), split when a str
NormalizeKeywords(a) ==
    LET kw == IF "keywords" \in a.keys THEN a.keywords ELSE KwList(<< >>)
    IN  IF kw.type = "str"
        THEN KwList([k \in 1..Len(split(kw.str, ",")) |-> strip(split(kw.str, ",")[k])])
        ELSE kw

\* search_product_hunt: variables = {"term": ", ".join(keywords)}
SearchTerm(kw) == join(<< ",", " " >>, kw.items)

NodeFields ==
    {"name", "tagline", "description", "url", "createdAt", "votesCount", "topics"}

\* search_product_hunt: the lookups of one loop iteration succeed
Extractable(p) == "node" \in DOMAIN p /\ NodeFields \subseteq DOMAIN p.node

\* search_product_hunt: the record appended for one post
ToProduct(p) ==
    LET node == p.node
    IN  [name |-> node.name, tagline |-> node.tagline,
         description |-> node.description, url |-> node.url,
         created_at |-> node.createdAt, votes |-> node.votesCount,
         topics |-> [k \in 1..Len(node.topics.edges) |->
                        node.topics.edges[k].node.name]]

\* search_product_hunt: data.get("data", {}).get("posts", {}).get("edges", [])
Posts(body) == Get(Get(Get(body, "data", << >>), "posts", << >>), "edges", << >>)

\* search_product_hunt: the loop over posts
ToProducts(posts) == [k \in 1..Len(posts) |-> ToProduct(posts[k])]

\* Variant: the list of products outlives the request (it still holds the
\* products of the first response to this request body).
StaleProducts ==
    IF data \in DOMAIN seen /\ seen[data].status = 200
    THEN seen[data].body.similar_products
    ELSE << >>

\* search_product_hunt: products = []
FreshProducts == << >>

Reverse(xs) == [k \in 1..Len(xs) |-> xs[Len(xs) + 1 - k]]

\* Variant: a non-200 status raises.
search_product_hunt_raise_for_status(resp) ==
    IF resp.status = 200
    THEN IF \A k \in 1..Len(Posts(resp.body)) : Extractable(Posts(resp.body)[k])
         THEN [raises |-> FALSE,
               products |-> FreshProducts \o ToProducts(Posts(resp.body))]
         ELSE [raises |-> TRUE, products |-> << >>]
    ELSE [raises |-> TRUE, products |-> << >>]

\* Variant: each product is put in front of the list.
search_product_hunt_prepending(resp) ==
    IF resp.status = 200
    THEN IF \A k \in 1..Len(Posts(resp.body)) : Extractable(Posts(resp.body)[k])
         THEN [raises |-> FALSE,
               products |-> Reverse(FreshProducts \o ToProducts(Posts(resp.body)))]
         ELSE [raises |-> TRUE, products |-> << >>]
    ELSE [raises |-> FALSE, products |-> << >>]

\* Variant: a failed lookup is answered with no products.
search_product_hunt_swallowing(resp) ==
    IF resp.status = 200
    THEN IF \A k \in 1..Len(Posts(resp.body)) : Extractable(Posts(resp.body)[k])
         THEN [raises |-> FALSE,
               products |-> FreshProducts \o ToProducts(Posts(resp.body))]
         ELSE [raises |-> FALSE, products |-> << >>]
    ELSE [raises |-> FALSE, products |-> << >>]

\* search_product_hunt, after requests.post returned `resp`:
\* the list returned, or the exception of a failed lookup
search_product_hunt(resp) ==
    IF resp.status = 200
    THEN IF \A k \in 1..Len(Posts(resp.body)) : Extractable(Posts(resp.body)[k])
         THEN [raises |-> FALSE,
               products |-> FreshProducts \o ToProducts(Posts(resp.body))]
         ELSE [raises |-> TRUE, products |-> << >>]
    ELSE [raises |-> FALSE, products |-> << >>]

\* summarize_product: what the prompt embeds
SummaryPrompt(product) ==
    [name |-> product.name, tagline |-> product.tagline,
     description |-> product.description,
     topics |-> join(<< ",", " " >>, product.topics)]

\* suggest_competitive_advantage: what the prompt embeds
AdvicePrompt(idea, found) ==
    [idea |-> idea,
     joined_summaries |->
        join(<< "\n", "\n" >>,
             [k \in 1..Len(found) |->
                << ToString(k), ".", " " >> \o found[k].summary])]

\* Variant: the summary text is dropped.
WithBlankSummary(prod, s) == [summary |-> << >>] @@ prod

\* prod["summary"] = ...
WithSummary(prod, s) == [summary |-> s] @@ prod

NoResponse == [status |-> 0, body |-> [pending |-> TRUE]]
BadRequest == [status |-> 400, body |-> [error |-> "No idea provided"]]
\* Flask answers an unhandled exception of a view with 500.
ServerError == [status |-> 500, body |-> [html |-> "Internal Server Error"]]
\* Variant: the response lacks competitive_advantage.
ResultWithoutAdvice(a, found, adv) ==
    [status |-> 200, body |-> [analysis |-> a, similar_products |-> found]]

\* analyze(): the jsonify(...) of the last statement, status 200
Result(a, found, adv) ==
    [status |-> 200,
     body |-> [analysis |-> a, similar_products |-> found,
               competitive_advantage |-> adv]]

\* `for prod in products` has another product to visit, or is over
AfterLoop(found, n) == IF n < Len(found) THEN "Summarize" ELSE "Advise"

\* The handler returns (or raises): its frame is gone, the response is sent.
Return(d, resp, state) ==
    /\ pc' = "Idle"
    /\ response' = resp
    /\ ended' = state
    /\ user_idea' = << >>
    /\ analysis' = Unbound
    /\ keywords' = KwList(<< >>)
    /\ products' = << >>
    /\ idx' = 0
    /\ comp_adv' = << >>
    /\ seen' = IF stubbed /\ d \notin DOMAIN seen THEN seen @@ (d :> resp) ELSE seen

Booted(harness) ==
    /\ stubbed = harness
    /\ memo = [analyzer |-> << >>, search |-> << >>,
               summarizer |-> << >>, advisor |-> << >>]
    /\ seen = << >>
    /\ pc = "Idle"
    /\ data = [has_idea |-> FALSE, idea |-> << >>]
    /\ user_idea = << >>
    /\ analysis = Unbound
    /\ keywords = KwList(<< >>)
    /\ products = << >>
    /\ idx = 0
    /\ comp_adv = << >>
    /\ calls = << >>
    /\ ended = "none"
    /\ response = NoResponse

\* The service runs against the live upstreams.
Init == Booted(FALSE)

\* The service runs in a test harness, against deterministic stubs.
InitStubbed == Booted(TRUE)

\* POST /analyze arrives with body d: data = request.json ... return 400
ValidateInput(d) ==
    /\ pc = "Idle"
    /\ data' = d
    /\ calls' = << >>
    /\ IF Falsy(GetIdea(d))
       THEN Return(d, BadRequest, "ValidateInput")
       ELSE /\ pc' = "Analyze"
            /\ user_idea' = GetIdea(d)
            /\ response' = NoResponse
            /\ ended' = "none"
            /\ UNCHANGED << analysis, keywords, products, idx, comp_adv, seen >>
    /\ UNCHANGED << stubbed, memo >>

\* Step 1: analysis = analyze_idea(user_idea); keywords = ...
Analyze ==
    /\ pc = "Analyze"
    /\ \E r \in Answers(memo.analyzer, user_idea, AnalyzerReplies, StubAnalyzerReplies) :
        /\ memo' = [memo EXCEPT !.analyzer = Learn(@, user_idea, r)]
        /\ calls' = Append(calls, Call("analyzer", user_idea, r))
        /\ IF r.raises \/ analyze_idea(r.content).type # "dict"
           THEN Return(data, ServerError, "Analyze")
           ELSE /\ analysis' = analyze_idea(r.content)
                /\ keywords' = NormalizeKeywords(analyze_idea(r.content))
                /\ pc' = "Search"
                /\ UNCHANGED << user_idea, products, idx, comp_adv, seen,
                                ended, response >>
    /\ UNCHANGED << stubbed, data >>

\* Step 2: products = search_product_hunt(keywords)
Search ==
    /\ pc = "Search"
    /\ IF keywords.type # "list"
       THEN \* ", ".join(keywords) raises before anything is sent
            /\ Return(data, ServerError, "Search")
            /\ UNCHANGED << memo, calls >>
       ELSE \E r \in Answers(memo.search, SearchTerm(keywords), SearchReplies,
                            StubSearchReplies) :
            /\ memo' = [memo EXCEPT !.search = Learn(@, SearchTerm(keywords), r)]
            /\ calls' = Append(calls, Call("search", SearchTerm(keywords), r))
            /\ IF r.raises \/ search_product_hunt(r).raises
               THEN Return(data, ServerError, "Search")
               ELSE /\ products' = search_product_hunt(r).products
                    /\ idx' = 0
                    /\ pc' = AfterLoop(search_product_hunt(r).products, 0)
                    /\ UNCHANGED << user_idea, analysis, keywords, comp_adv,
                                    seen, ended, response >>
    /\ UNCHANGED << stubbed, data >>

\* Step 3, one iteration: prod["summary"] = summarize_product(prod)
Summarize ==
    /\ pc = "Summarize"
    /\ LET prod == products[idx + 1]
       IN  \E r \in Answers(memo.summarizer, SummaryPrompt(prod), SummarizerReplies,
                           StubSummarizerReplies) :
            /\ memo' = [memo EXCEPT !.summarizer = Learn(@, SummaryPrompt(prod), r)]
            /\ calls' = Append(calls, Call("summarizer", SummaryPrompt(prod), r))
            /\ IF r.raises
               THEN Return(data, ServerError, "Summarize")
               ELSE /\ products' = [products EXCEPT
                                      ![idx + 1] = WithSummary(prod, strip(r.content))]
                    /\ idx' = idx + 1
                    /\ pc' = AfterLoop(products, idx + 1)
                    /\ UNCHANGED << user_idea, analysis, keywords, comp_adv,
                                    seen, ended, response >>
    /\ UNCHANGED << stubbed, data >>

\* Step 4: comp_adv = suggest_competitive_advantage(user_idea, products)
Advise ==
    /\ pc = "Advise"
    /\ LET prompt == AdvicePrompt(user_idea, products)
       IN  \E r \in Answers(memo.advisor, prompt, AdvisorReplies, StubAdvisorReplies) :
            /\ memo' = [memo EXCEPT !.advisor = Learn(@, prompt, r)]
            /\ calls' = Append(calls, Call("advisor", prompt, r))
            /\ IF r.raises
               THEN Return(data, ServerError, "Advise")
               ELSE /\ comp_adv' = strip(r.content)
                    /\ pc' = "Respond"
                    /\ UNCHANGED << user_idea, analysis, keywords, products,
                                    idx, seen, ended, response >>
    /\ UNCHANGED << stubbed, data >>

\* Step 5: return jsonify({...})
Respond ==
    /\ pc = "Respond"
    /\ Return(data, Result(analysis, products, comp_adv), "Respond")
    /\ UNCHANGED << stubbed, memo, data, calls >>

Next ==
    \/ \E d \in Requests : ValidateInput(d)
    \/ Analyze
    \/ Search
    \/ Summarize
    \/ Advise
    \/ Respond

Spec == Init /\ [][Next]_vars

SpecStubbed == InitStubbed /\ [][Next]_vars

-----------------------------------------------------------------------------
(* Vocabulary of the properties                                            *)

\* A response has been sent and no request is in flight.
Finished == pc = "Idle" /\ ended # "none"

ThreeKeys == {"analysis", "similar_products", "competitive_advantage"}

\* s without its leading and trailing whitespace, by position.
Trimmed(s) ==
    LET solid == { k \in 1..Len(s) : s[k] \notin Whitespace }
    IN  IF solid = {} THEN << >>
        ELSE SubSeq(s, CHOOSE a \in solid : \A b \in solid : a <= b,
                       CHOOSE a \in solid : \A b \in solid : a >= b)

\* The text is one JSON document, with nothing but whitespace around it.
ValidJson(c) ==
    \E k \in 1..Len(c) :
        c[k] \in JsonDocs /\ \A j \in 1..Len(c) : j # k => c[j] \in Whitespace

\* The document of a valid text.
DocOf(c) == DocValue(c[CHOOSE k \in 1..Len(c) : c[k] \in JsonDocs])

\* A post of a search answer that the loop of search_product_hunt cannot read.
BrokenPost(p) == "node" \notin DOMAIN p \/ ~(NodeFields \subseteq DOMAIN p.node)

\* The posts a 200 answer carries, if it carries the whole path to them.
HasPosts(body) ==
    /\ "data" \in DOMAIN body
    /\ "posts" \in DOMAIN body.data
    /\ "edges" \in DOMAIN body.data.posts

\* The step that sent the last call raised, as the log of calls tells.
LastCallRaised ==
    /\ calls # << >>
    /\ LET last == calls[Len(calls)]
       IN  \/ last.reply.raises
           \/ /\ last.svc = "analyzer"
              /\ ValidJson(last.reply.content)
              /\ LET v == DocOf(last.reply.content)
                 IN  \/ v.type # "dict"
                     \/ "keywords" \in v.keys /\ v.keywords.type \notin {"list", "str"}
           \/ /\ last.svc = "search"
              /\ last.reply.status = 200
              /\ HasPosts(last.reply.body)
              /\ \E k \in 1..Len(last.reply.body.data.posts.edges) :
                    BrokenPost(last.reply.body.data.posts.edges[k])

-----------------------------------------------------------------------------
(* C1, as stated: every request with a non-empty idea ends in Respond with *)
(* status 200 and the three top-level keys.                                *)
C1_AlwaysOk ==
    (Finished /\ GetIdea(data) # << >>) =>
        /\ ended = "Respond"
        /\ response.status = 200
        /\ DOMAIN response.body = ThreeKeys

(* C1, amended: a request with a non-empty idea ends in Respond with       *)
(* status 200 and exactly the three keys analysis, similar_products and    *)
(* competitive_advantage, unless a step raised; then it ends at that step  *)
(* with status 500.                                                        *)
C1_OkUnlessRaised ==
    (Finished /\ GetIdea(data) # << >>) =>
        IF LastCallRaised
        THEN /\ ended \in {"Analyze", "Search", "Summarize", "Advise"}
             /\ response.status = 500
        ELSE /\ ended = "Respond"
             /\ response.status = 200
             /\ DOMAIN response.body = ThreeKeys

C1_Witness ==
    /\ Finished
    /\ GetIdea(data) = << "x" >>
    /\ ended = "Respond"
    /\ response.status = 200
    /\ Len(response.body.similar_products) = 2

(* C2: an empty or omitted idea is answered with status 400 and the body   *)
(* {"error": "No idea provided"}, and no upstream is called; a request     *)
(* that gets past validation has a non-empty idea.                         *)
C2_EmptyIdeaRejected ==
    /\ (Finished /\ (~data.has_idea \/ data.idea = << >>)) =>
            /\ response.status = 400
            /\ response.body = [error |-> "No idea provided"]
            /\ ended = "ValidateInput"
            /\ calls = << >>
    /\ pc # "Idle" => (data.has_idea /\ data.idea # << >>)

C2_Witness ==
    /\ Finished
    /\ ~data.has_idea
    /\ response.status = 400
    /\ calls = << >>

-----------------------------------------------------------------------------
\* The Analyzer's completion of the request in flight (or last served).
AnalyzerText == calls[1].reply.content

\* The Analyzer returned text that is not valid JSON.
Unparseable ==
    /\ calls # << >>
    /\ ~calls[1].reply.raises
    /\ ~ValidJson(AnalyzerText)

\* The handler holds the Analyzer's result.
Analyzed == pc \in {"Search", "Summarize", "Advise", "Respond"}

(* C3, as stated: when the Analyzer's text is not valid JSON, the analysis *)
(* is {"raw": <that text>} and Search is called with no keywords.          *)
C3_RawIsTheText ==
    /\ (Analyzed /\ Unparseable) =>
            /\ analysis.keys = {"raw"}
            /\ analysis.raw = AnalyzerText
            /\ keywords = KwList(<< >>)
    /\ (Finished /\ Unparseable /\ response.status = 200) =>
            /\ response.body.analysis.keys = {"raw"}
            /\ response.body.analysis.raw = AnalyzerText

(* C3, amended: when the Analyzer's text is not valid JSON, the analysis   *)
(* (in the handler and in a 200 response) is {"raw": t} with t that text   *)
(* without its leading and trailing whitespace, the Analyze step does not  *)
(* fail the request, and the Search Client is called with an empty keyword *)
(* list (so the search term sent is the empty string).                     *)
C3_RawIsTheTrimmedText ==
    /\ (Analyzed /\ Unparseable) =>
            /\ analysis.keys = {"raw"}
            /\ analysis.raw = Trimmed(AnalyzerText)
            /\ pc = "Search" => keywords = KwList(<< >>)
    /\ (Finished /\ Unparseable) =>
            /\ ended # "Analyze"
            /\ Len(calls) >= 2
            /\ calls[2].svc = "search"
            /\ calls[2].arg = << >>
            /\ response.status = 200 =>
                    /\ response.body.analysis.keys = {"raw"}
                    /\ response.body.analysis.raw = Trimmed(AnalyzerText)

C3_Witness ==
    /\ Finished
    /\ Unparseable
    /\ AnalyzerText = << " " >> \o sorry \o << "\n" >>
    /\ response.status = 200
    /\ response.body.analysis.raw = sorry
    /\ calls[2].arg = << >>

-----------------------------------------------------------------------------
\* The search answer of the request in flight (or last served).
SearchAnswered == Len(calls) >= 2 /\ calls[2].svc = "search"

SearchRefused ==
    /\ SearchAnswered
    /\ ~calls[2].reply.raises
    /\ calls[2].reply.status # 200

(* C4, as stated: after a non-200 search answer the Summarizer is not      *)
(* called, the Advisor is, and the request returns 200 with no products.   *)
C4_RefusedSearchGives200 ==
    (Finished /\ SearchRefused) =>
        /\ Len(calls) = 3
        /\ calls[3].svc = "advisor"
        /\ response.status = 200
        /\ response.body.similar_products = << >>

(* C4, amended: after a non-200 search answer, search returns the empty    *)
(* list without raising, the Summarizer is never called and the Advisor is *)
(* called next; the request returns 200 with similar_products empty when   *)
(* the Advisor's call returns, and 500 when the Advisor's call raises.     *)
C4_RefusedSearchDegrades ==
    /\ (SearchRefused /\ pc # "Idle") =>
            /\ products = << >>
            /\ pc \in {"Advise", "Respond"}
    /\ (Finished /\ SearchRefused) =>
            /\ Len(calls) = 3
            /\ calls[3].svc = "advisor"
            /\ IF calls[3].reply.raises
               THEN response.status = 500 /\ ended = "Advise"
               ELSE /\ response.status = 200
                    /\ ended = "Respond"
                    /\ response.body.similar_products = << >>

C4_Witness ==
    /\ Finished
    /\ SearchRefused
    /\ calls[2].reply.status = 500
    /\ response.status = 200
    /\ response.body.similar_products = << >>

-----------------------------------------------------------------------------
\* Positions of the commas of s, with the two ends.
Cuts(s) == { k \in 1..Len(s) : s[k] = "," } \cup { 0, Len(s) + 1 }

\* The n-th smallest cut.
Cut(s, n) == CHOOSE c \in Cuts(s) : Cardinality({ x \in Cuts(s) : x < c }) = n - 1

\* The pieces between consecutive commas, each trimmed, in order.
TrimmedPieces(s) ==
    [n \in 1..(Cardinality(Cuts(s)) - 1) |->
        Trimmed(SubSeq(s, Cut(s, n) + 1, Cut(s, n + 1) - 1))]

\* The "keywords" entry of the analysis, [] when absent.
KeywordsEntry(a) == IF "keywords" \in a.keys THEN a.keywords ELSE KwList(<< >>)

(* C5: the keyword list handed to the Search Client is, for a keywords     *)
(* entry that is a string, that string split at its commas with every      *)
(* piece trimmed of surrounding whitespace, in order ("ai, finance, saas"  *)
(* gives ["ai", "finance", "saas"]); an entry that is a list is handed     *)
(* over unchanged.                                                         *)
C5_KeywordsSplitAndTrimmed ==
    pc = "Search" =>
        /\ KeywordsEntry(analysis).type = "str" =>
                /\ keywords.type = "list"
                /\ keywords.items = TrimmedPieces(KeywordsEntry(analysis).str)
        /\ KeywordsEntry(analysis).type = "list" =>
                keywords = KeywordsEntry(analysis)
        /\ KeywordsEntry(analysis).str =
                ai \o << ",", " " >> \o finance \o << ",", " " >> \o saas
           => keywords.items = << ai, finance, saas >>

C5_Witness ==
    /\ pc = "Search"
    /\ analysis.keywords = KwStr(<< " " >> \o ai \o << " ", "," >> \o finance \o << "\n" >>)
    /\ keywords.items = << ai, finance >>

-----------------------------------------------------------------------------
\* The k-th Summarizer call of the request, after the Analyzer's and the
\* search.
SummarizerCall(k) == calls[2 + k]

SummarizerRaised ==
    \E k \in 1..Len(calls) : calls[k].svc = "summarizer" /\ calls[k].reply.raises

(* C6, as stated: every product of a 200 response has a non-empty summary, *)
(* and a raising Summarizer call fails the request without the Advisor.    *)
C6_SummariesNonEmpty ==
    /\ (Finished /\ response.status = 200) =>
            \A k \in 1..Len(response.body.similar_products) :
                /\ "summary" \in DOMAIN response.body.similar_products[k]
                /\ response.body.similar_products[k].summary # << >>
    /\ (Finished /\ SummarizerRaised) =>
            /\ response.status >= 500
            /\ \A k \in 1..Len(calls) : calls[k].svc # "advisor"

(* C6, amended: in a 200 response every product has a summary field, the   *)
(* text returned by the Summarizer call made for that product without its  *)
(* leading and trailing whitespace (empty when that text is all            *)
(* whitespace); a raising Summarizer call ends the request with status     *)
(* 500, that call being the last one: no result is returned, not even a    *)
(* partial one, and the Advisor is never called.                           *)
C6_SummariesAreTheTrimmedTexts ==
    /\ (Finished /\ response.status = 200) =>
            \A k \in 1..Len(response.body.similar_products) :
                LET prod == response.body.similar_products[k]
                IN  /\ "summary" \in DOMAIN prod
                    /\ SummarizerCall(k).svc = "summarizer"
                    /\ SummarizerCall(k).arg.name = prod.name
                    /\ prod.summary = Trimmed(SummarizerCall(k).reply.content)
    /\ (Finished /\ SummarizerRaised) =>
            /\ response.status = 500
            /\ ended = "Summarize"
            /\ DOMAIN response.body \cap ThreeKeys = {}
            /\ calls[Len(calls)].svc = "summarizer"
            /\ calls[Len(calls)].reply.raises
            /\ \A k \in 1..Len(calls) : calls[k].svc # "advisor"

C6_Witness ==
    /\ Finished
    /\ response.status = 200
    /\ Len(response.body.similar_products) = 2
    /\ response.body.similar_products[1].summary = << "s" >>
    /\ response.body.similar_products[2].summary = << >>

-----------------------------------------------------------------------------
-----------------------------------------------------------------------------
(* C8: against deterministic stubs, every response to a request body is    *)
(* the response first given to that body (same status, same body),         *)
(* whatever requests were served in between.                               *)
C8_SameRequestSameResponse ==
    /\ (Finished /\ data \in DOMAIN seen) => response = seen[data]
    /\ (pc = "Respond" /\ data \in DOMAIN seen) =>
            Result(analysis, products, comp_adv) = seen[data]

\* A request body served before is about to be answered again, after a
\* request with another idea was served.
C8_Witness ==
    /\ stubbed
    /\ pc = "Respond"
    /\ data \in DOMAIN seen
    /\ Cardinality(DOMAIN seen) >= 3
    /\ seen[data].status = 200
    /\ Len(products) = 2
    /\ Result(analysis, products, comp_adv) = seen[data]

-----------------------------------------------------------------------------
\* The structured shape, the raw shape.
Structured(a) == StructuredKeys \subseteq a.keys
RawOnly(a)    == "raw" \in a.keys

AnalyzerReturned == calls # << >> /\ ~calls[1].reply.raises

(* C9, as stated: whatever text the LLM returns, the value analyze_idea    *)
(* returns has exactly one of the structured shape and the raw shape.      *)
C9_ExactlyOneShape ==
    AnalyzerReturned =>
        LET a == analyze_idea(AnalyzerText)
        IN  \/ Structured(a) /\ ~RawOnly(a)
            \/ ~Structured(a) /\ RawOnly(a)

(* C9, amended: when the LLM's text is not valid JSON, analyze_idea        *)
(* returns an object with the raw field and nothing else; when it is valid *)
(* JSON, analyze_idea returns the decoded value as it is, whatever its     *)
(* shape: it has the structured fields only if the LLM supplied them.      *)
C9_RawIffUnparseable ==
    /\ Analyzed =>
            IF ValidJson(AnalyzerText)
            THEN analysis = DocOf(AnalyzerText)
            ELSE analysis.type = "dict" /\ analysis.keys = {"raw"}
    /\ (Finished /\ AnalyzerReturned /\ ended = "Analyze") =>
            /\ ValidJson(AnalyzerText)
            /\ DocOf(AnalyzerText).type # "dict"

C9_Witness ==
    /\ Analyzed
    /\ AnalyzerText = << "J_EMPTY" >>
    /\ analysis.type = "dict"
    /\ analysis.keys = {}

-----------------------------------------------------------------------------
\* The k-th call is an LLM call of the Analyzer or the Advisor that raised.
LLMCallRaised(k) ==
    calls[k].svc \in {"analyzer", "advisor"} /\ calls[k].reply.raises

SearchGot200 ==
    SearchAnswered /\ ~calls[2].reply.raises /\ calls[2].reply.status = 200

SomePostBroken(body) ==
    /\ HasPosts(body)
    /\ \E k \in 1..Len(body.data.posts.edges) : BrokenPost(body.data.posts.edges[k])

(* C10, as stated: a raising Analyzer or Advisor call, or a 200 search     *)
(* answer lacking an expected field, fails the request: no 200 response    *)
(* and no call after the failing one.                                      *)
C10_AnyMissingFieldIsFatal ==
    Finished =>
        /\ \A k \in 1..Len(calls) :
                LLMCallRaised(k) => (response.status # 200 /\ k = Len(calls))
        /\ (SearchGot200 /\ (~HasPosts(calls[2].reply.body)
                             \/ SomePostBroken(calls[2].reply.body))) =>
                (response.status # 200 /\ Len(calls) = 2)

(* C10, amended: a raising Analyzer or Advisor call, or a 200 search       *)
(* answer in which a post lacks its node or a node lacks a field the       *)
(* client reads, fails the request with status 500, the failing call being *)
(* the last one (no retry, no later step); a 200 search answer without the *)
(* data, posts or edges key is absorbed as an empty result, like a non-200 *)
(* answer; and a 200 response is sent only if no call raised and no post   *)
(* was broken.                                                             *)
C10_OnlyBrokenPostsAreFatal ==
    Finished =>
        /\ \A k \in 1..Len(calls) :
                LLMCallRaised(k) =>
                    /\ response.status = 500
                    /\ k = Len(calls)
                    /\ \A j \in 1..Len(calls) : calls[j].svc = calls[k].svc => j = k
        /\ (SearchGot200 /\ SomePostBroken(calls[2].reply.body)) =>
                (response.status = 500 /\ ended = "Search" /\ Len(calls) = 2)
        /\ (SearchGot200 /\ ~HasPosts(calls[2].reply.body)) =>
                (Len(calls) = 3 /\ calls[3].svc = "advisor")
        /\ response.status = 200 =>
                /\ \A k \in 1..Len(calls) : ~calls[k].reply.raises
                /\ calls[2].reply.status = 200 => ~SomePostBroken(calls[2].reply.body)

C10_Witness ==
    /\ Finished
    /\ SearchGot200
    /\ SomePostBroken(calls[2].reply.body)
    /\ response.status = 500
    /\ Len(calls) = 2

=============================================================================
